---- MODULE Spec2Model ----
(***************************************************************************)
(* State machine of the ECS test agent                                     *)
(* (bottlerocket/agents/src/bin/ecs-test-agent/main.rs).                   *)
(*                                                                         *)
(* One run of EcsTestRunner::run is modelled await point by await point:   *)
(* every ECS API call is "in flight" between the step that sends it and    *)
(* the step that consumes its answer; the two tokio timeouts and the two   *)
(* 2 s sleeps are timers over a stage clock read every ClockStep seconds.   *)
(* The ECS service is the environment: it answers every call with any      *)
(* answer the SDK types allow, except that a task definition family that   *)
(* exists is not reported missing and describe_tasks answers with at most  *)
(* one task per requested ARN.                                             *)
(***************************************************************************)
EXTENDS Integers, Sequences, FiniteSets, TLC

(***************************************************************************)
(* Bounds of the model.                                                    *)
(***************************************************************************)
\* largest task_count of the run configuration
MaxTasks == 1
\* largest task_count test_results is applied to on its own
MaxReplicas == 2
\* seconds between two readings of the stage clock
ClockStep == 2
\* largest number of containers in one task of a describe_tasks answer
MaxContainers == 2
\* largest revision the default family has before the run starts
MaxRevision == 1
MaxRuns == 3
MaxLatency == 2

(***************************************************************************)
(* Program constants.                                                      *)
(***************************************************************************)
\* Duration::from_secs(30) of the readiness timeout
READY_TIMEOUT_SECS == 30
\* Duration::from_secs(30) of the completion timeout
COMPLETION_TIMEOUT_SECS == 30
\* Duration::from_secs(2) of the sleep in wait_for_registered_containers
READY_SLEEP_SECS == 2
\* Duration::from_secs(2) of the sleep in wait_for_test_running
POLL_SLEEP_SECS == 2
\* bottlerocket_agents::constants::DEFAULT_TASK_DEFINITION (the family name)
DEFAULT_TASK_DEFINITION == "DEFAULT_TASK_DEFINITION"

(***************************************************************************)
(* Rust values.                                                            *)
(***************************************************************************)
\* Option<T>: None is the empty sequence, Some(x) the one-element sequence
None == <<>>
Some(x) == <<x>>

\* Result<T, Error>
Ok(v) == [ok |-> v]
Err(e) == [err |-> e]
IsOk(r) == "ok" \in DOMAIN r
IsErr(r) == "err" \in DOMAIN r
\* run() has not returned yet
Pending == [pending |-> TRUE]

\* format!("{}:{}", DEFAULT_TASK_DEFINITION, revision)
FormatNameRevision(name, revision) == name \o ":" \o ToString(revision)

\* `x as u64` for an i32 x
AsU64(x) == IF x >= 0 THEN x ELSE x + 2^64

VARIABLES
    pc,         \* await point run() is suspended at, or "done"
    config,     \* EcsTestConfig: task_definition_name_and_revision, task_count
    elapsed,    \* seconds since the timeout of the current stage was created
    wake,       \* stage second at which the current sleep ends
    family,     \* ECS side: latest revision of the default family, 0 = none
    calls,      \* number of requests sent, per ECS operation
    cluster,    \* Option: describe_clusters output the loop consumed last
    exists_arg, \* answers of the describe_task_definition calls, in order
    task_name,  \* Option: the task definition passed to run_task
    task_arns,  \* task_arns collected from the run_task output
    tasks,      \* Option: describe_tasks output test_results consumed last
    reduced,    \* number of describe_tasks outputs test_results has consumed
    finalCalls, \* number of test_results calls made after the timeout fired
    timedOut,   \* what the completion timeout interrupted: "no", "sleep", "fetch"
    result,     \* what run() returned, Pending until then
    others,     \* the other runs that use the same default family (RunState)
    now         \* Option: seconds since run() was entered, None when not observed

vars == <<pc, config, elapsed, wake, family, calls, cluster, exists_arg, task_name,
          task_arns, tasks, reduced, finalCalls, timedOut, result, others, now>>

Operations == {"describe_clusters", "describe_task_definition",
               "register_task_definition", "run_task", "describe_tasks"}

\* a request of operation op is sent
Send(op) == calls' = [calls EXCEPT ![op] = @ + 1]


(***************************************************************************)
(* Answers of the ECS service.                                             *)
(***************************************************************************)
\* describe_clusters: an SDK error, or the clusters() list: empty, or the
\* cluster with its registered_container_instances_count
DescribeClustersOutputs ==
    {Err("sdk"), Ok(<<>>)}
        \cup {Ok(<<[registered_container_instances_count |-> n]>>) : n \in 0..1}

\* describe_task_definition: ServiceError(ClientException) while the family
\* does not exist, any other SdkError at any time, or an output whose
\* task_definition() is absent or carries the latest revision
DescribeTaskDefinitionOutputs ==
    {Err("Other")}
        \cup (IF family = 0
              THEN {Err("ClientException")}
              ELSE {Ok([task_definition |-> None]),
                    Ok([task_definition |-> Some([revision |-> family])])})

\* register_task_definition: an SDK error (nothing registered), or the next
\* revision is registered and the output carries it, or carries nothing
RegisterTaskDefinitionOutputs ==
    {Err("sdk"),
     Ok([task_definition |-> None]),
     Ok([task_definition |-> Some([revision |-> family + 1])])}

\* run_task: an SDK error, or at most `count` tasks; the i-th task has the
\* ARN i or no ARN
RunTaskOutputs(count) ==
    {Err("sdk")}
        \cup {Ok(l) : l \in UNION {{t \in [1..n -> {None} \cup {Some(i) : i \in 1..n}] :
                                        \A i \in 1..n : t[i] \in {None, Some(i)}}
                                       : n \in 0..count}}

\* the fields of a task that test_results reads, but for its ARN
LastStatuses == {Some("STOPPED"), Some("RUNNING"), None}
StopCodes == {Some("EssentialContainerExited"), Some("TaskFailedToStart"), None}
ExitCodes == {Some(0), Some(1), None}
ContainerLists ==
    UNION {[1..n -> [exit_code : ExitCodes]] : n \in 0..MaxContainers}
AllTaskStates ==
    [last_status : LastStatuses, stop_code : StopCodes, containers : ContainerLists]

\* the task states the service reports in a whole run: the echo task that
\* has not stopped yet, has exited with 0, has exited with 1
RunTaskStates ==
    {[last_status |-> Some("RUNNING"), stop_code |-> None,
      containers |-> <<[exit_code |-> None]>>],
     [last_status |-> Some("STOPPED"), stop_code |-> Some("EssentialContainerExited"),
      containers |-> <<[exit_code |-> Some(0)]>>],
     [last_status |-> Some("STOPPED"), stop_code |-> Some("EssentialContainerExited"),
      containers |-> <<[exit_code |-> Some(1)]>>]}

Task(arn, state) ==
    [task_arn |-> arn, last_status |-> state.last_status,
     stop_code |-> state.stop_code, containers |-> state.containers]

\* the tasks() lists describe_tasks can answer for the requested ARNs: in the
\* order of the request, each ARN described once or missing
RECURSIVE TaskLists(_, _)
TaskLists(arns, states) ==
    IF arns = <<>>
    THEN {<<>>}
    ELSE LET rest == TaskLists(Tail(arns), states)
         IN  rest \cup {<<Task(Head(arns), s)>> \o r : s \in states, r \in rest}

DescribeTasksOutputs(arns, states) ==
    {Err("sdk")} \cup {Ok(l) : l \in TaskLists(arns, states)}

(***************************************************************************)
(* Pure functions of the program.                                          *)
(***************************************************************************)
\* the third filter with a missing exit code read as 0
running_count_unwrap(task_list) ==
    LET stopped == SelectSeq(task_list,
                        LAMBDA task : task.last_status = Some("STOPPED"))
        exited == SelectSeq(stopped,
                        LAMBDA task : task.stop_code = Some("EssentialContainerExited"))
        clean == SelectSeq(exited,
                        LAMBDA task :
                            Len(SelectSeq(task.containers,
                                    LAMBDA container :
                                        container.exit_code \notin {Some(0), None})) = 0)
    IN  Len(clean)

\* lines 152-163: the three chained filters and the count
running_count(task_list) ==
    LET stopped == SelectSeq(task_list,
                        LAMBDA task : task.last_status = Some("STOPPED"))
        exited == SelectSeq(stopped,
                        LAMBDA task : task.stop_code = Some("EssentialContainerExited"))
        clean == SelectSeq(exited,
                        LAMBDA task :
                            Len(SelectSeq(task.containers,
                                    LAMBDA container : container.exit_code # Some(0))) = 0)
    IN  Len(clean)

\* num_failed counts the described tasks that have not passed
test_results_failed_described(output, task_count) ==
    IF IsErr(output)
    THEN Err("TaskDescribe")
    ELSE LET count == running_count(output.ok)
         IN  Ok([outcome |-> IF task_count = count THEN "Pass" ELSE "Fail",
                 num_passed |-> AsU64(count),
                 num_failed |-> AsU64(Len(output.ok) - count),
                 num_skipped |-> 0,
                 other_info |-> None])

\* the outcome compares with the number of described tasks
test_results_pass_described(output, task_count) ==
    IF IsErr(output)
    THEN Err("TaskDescribe")
    ELSE LET count == running_count(output.ok)
         IN  Ok([outcome |-> IF Len(output.ok) = count THEN "Pass" ELSE "Fail",
                 num_passed |-> AsU64(count),
                 num_failed |-> AsU64(task_count - count),
                 num_skipped |-> 0,
                 other_info |-> None])

\* test_results from the answer of describe_tasks on
test_results(output, task_count) ==
    IF IsErr(output)
    THEN Err("TaskDescribe")
    ELSE LET count == running_count(output.ok)
         IN  Ok([outcome |-> IF task_count = count THEN "Pass" ELSE "Fail",
                 num_passed |-> AsU64(count),
                 num_failed |-> AsU64(task_count - count),
                 num_skipped |-> 0,
                 other_info |-> None])

\* exists is false for every error
exists_no_error(output) == ~IsErr(output)

\* exists: false only for ServiceError(ClientException)
exists(output) ==
    IF IsErr(output) /\ output.err = "ClientException" THEN FALSE ELSE TRUE

\* lines 238-242 and 253-257: the revision of the output, formatted
name_and_revision(output) ==
    IF output.ok.task_definition = None
    THEN Err("TaskDefinitionMissing")
    ELSE Ok(FormatNameRevision(DEFAULT_TASK_DEFINITION,
                               output.ok.task_definition[1].revision))

\* lines 85-89: the ARNs of the tasks that have one
RECURSIVE filter_map_arns(_)
filter_map_arns(task_list) ==
    IF task_list = <<>>
    THEN <<>>
    ELSE (IF Head(task_list) = None THEN <<>> ELSE <<Head(task_list)[1]>>)
             \o filter_map_arns(Tail(task_list))


(***************************************************************************)
(* The run.                                                                *)
(***************************************************************************)
Configs ==
    [task_definition_name_and_revision : {None, Some("custom-task:7")},
     task_count : 0..MaxTasks]

Init ==
    /\ pc = "aws_config"
    /\ config \in Configs
    /\ elapsed = 0
    /\ wake = 0
    /\ family \in 0..MaxRevision
    /\ calls = [op \in Operations |-> 0]
    /\ cluster = None
    /\ exists_arg = <<>>
    /\ task_name = None
    /\ task_arns = <<>>
    /\ tasks = None
    /\ reduced = 0
    /\ finalCalls = 0
    /\ timedOut = "no"
    /\ result = Pending
    /\ others = <<>>
    /\ now = None

\* run() returns r
Return(r) ==
    /\ pc' = "done"
    /\ result' = r
    /\ elapsed' = 0
    /\ wake' = 0

\* lines 76-84: run_task is sent with the task definition `name`
SendRunTask(name) ==
    /\ pc' = "run_task"
    /\ task_name' = Some(name)
    /\ Send("run_task")
    /\ elapsed' = 0
    /\ wake' = 0

\* lines 49-65: the AWS configuration is resolved (outside this program);
\* on success the readiness timeout is created and the first describe_clusters
\* of wait_for_registered_containers is sent
aws_config ==
    /\ pc = "aws_config"
    /\ \/ /\ Return(Err("AwsConfig"))
          /\ UNCHANGED calls
       \/ /\ pc' = "describe_clusters"
          /\ Send("describe_clusters")
          /\ elapsed' = 0
          /\ UNCHANGED <<wake, result>>
    /\ UNCHANGED <<config, others, now, cluster, family, exists_arg, task_name, task_arns, tasks,
                   reduced, finalCalls, timedOut>>

\* the configured task definition is ignored
resolve_default_task_definition ==
    /\ pc' = "exists_describe"
    /\ Send("describe_task_definition")
    /\ elapsed' = 0
    /\ wake' = 0
    /\ UNCHANGED task_name

\* lines 69-72 and 203-209, reached when the readiness stage has succeeded:
\* the configured task definition is submitted, or the default family is
\* described
resolve_task_definition ==
    IF config.task_definition_name_and_revision # None
    THEN SendRunTask(config.task_definition_name_and_revision[1])
    ELSE /\ pc' = "exists_describe"
         /\ Send("describe_task_definition")
         /\ elapsed' = 0
         /\ wake' = 0
         /\ UNCHANGED task_name

\* wait_for_registered_containers, but an empty `clusters` list is slept on and
\* polled again instead of failing with NoTask
wait_for_registered_containers_retry_missing ==
    /\ pc = "describe_clusters"
    /\ \E output \in DescribeClustersOutputs :
       /\ cluster' = Some(output)
       /\ IF IsErr(output)
          THEN Return(Err("ClusterDescribe")) /\ UNCHANGED <<calls, task_name>>
          ELSE IF output.ok # <<>>
                  /\ Head(output.ok).registered_container_instances_count # 0
          THEN resolve_task_definition /\ UNCHANGED result
          ELSE /\ pc' = "ready_sleep"
               /\ wake' = elapsed + READY_SLEEP_SECS
               /\ UNCHANGED <<elapsed, calls, task_name, result>>
       /\ UNCHANGED <<config, others, now, family, exists_arg, task_arns, tasks, reduced,
                      finalCalls, timedOut>>

\* lines 182-196: an answer of describe_clusters arrives
wait_for_registered_containers ==
    /\ pc = "describe_clusters"
    /\ \E output \in DescribeClustersOutputs :
       /\ cluster' = Some(output)
       /\ IF IsErr(output)
          THEN Return(Err("ClusterDescribe")) /\ UNCHANGED <<calls, task_name>>
          ELSE IF output.ok = <<>>
          THEN Return(Err("NoTask")) /\ UNCHANGED <<calls, task_name>>
          ELSE IF Head(output.ok).registered_container_instances_count # 0
          THEN resolve_task_definition /\ UNCHANGED result
          ELSE /\ pc' = "ready_sleep"
               /\ wake' = elapsed + READY_SLEEP_SECS
               /\ UNCHANGED <<elapsed, calls, task_name, result>>
       /\ UNCHANGED <<config, others, now, family, exists_arg, task_arns, tasks, reduced,
                      finalCalls, timedOut>>

\* the loop polls again without sleeping
ready_sleep_ends_at_once ==
    /\ pc = "ready_sleep"
    /\ pc' = "describe_clusters"
    /\ Send("describe_clusters")
    /\ UNCHANGED <<config, others, now, cluster, elapsed, wake, family, exists_arg, task_name,
                   task_arns, tasks, reduced, finalCalls, timedOut, result>>

\* line 196 and the next iteration: the sleep ends, describe_clusters is sent
ready_sleep_ends ==
    /\ pc = "ready_sleep"
    /\ elapsed >= wake
    /\ pc' = "describe_clusters"
    /\ Send("describe_clusters")
    /\ UNCHANGED <<config, others, now, cluster, elapsed, wake, family, exists_arg, task_name,
                   task_arns, tasks, reduced, finalCalls, timedOut, result>>

\* the readiness timeout is reported as the missing cluster is
ready_timeout_no_task ==
    /\ pc \in {"describe_clusters", "ready_sleep"}
    /\ elapsed >= READY_TIMEOUT_SECS
    /\ Return(Err("NoTask"))
    /\ UNCHANGED <<config, others, now, cluster, family, calls, exists_arg, task_name, task_arns,
                   tasks, reduced, finalCalls, timedOut>>

\* the readiness timeout is ignored: the run goes on to the task definition
ready_timeout_proceeds ==
    /\ pc \in {"describe_clusters", "ready_sleep"}
    /\ elapsed >= READY_TIMEOUT_SECS
    /\ resolve_task_definition
    /\ UNCHANGED <<config, others, now, cluster, family, exists_arg, task_arns,
                   tasks, reduced, finalCalls, timedOut, result>>

\* wait_for_registered_containers is awaited without a timeout
ready_timeout_absent ==
    /\ pc \in {"describe_clusters", "ready_sleep"}
    /\ elapsed > READY_TIMEOUT_SECS + ClockStep
    /\ Return(Err("InstanceTimeout"))
    /\ UNCHANGED <<config, others, now, cluster, family, calls, exists_arg, task_name, task_arns,
                   tasks, reduced, finalCalls, timedOut>>

\* lines 62-67: the readiness timeout fires while the loop is suspended; the
\* loop is dropped and run() returns the InstanceTimeout error
ready_timeout ==
    /\ pc \in {"describe_clusters", "ready_sleep"}
    /\ elapsed >= READY_TIMEOUT_SECS
    /\ Return(Err("InstanceTimeout"))
    /\ UNCHANGED <<config, others, now, cluster, family, calls, exists_arg, task_name, task_arns,
                   tasks, reduced, finalCalls, timedOut>>


\* create_or_find_task_definition, but a run that finds the family missing
\* does not register it when another run has already sent a register
create_or_find_task_definition_exclusive ==
    /\ pc = "exists_describe"
    /\ \E output \in DescribeTaskDefinitionOutputs :
       /\ exists_arg' = Append(exists_arg, output)
       /\ IF exists(output)
             \/ \E i \in 1..Len(others) :
                   others[i].calls["register_task_definition"] > 0
          THEN pc' = "latest_describe" /\ Send("describe_task_definition")
          ELSE pc' = "register" /\ Send("register_task_definition")
       /\ UNCHANGED <<config, others, now, cluster, elapsed, wake, family, task_name, task_arns, tasks,
                      reduced, finalCalls, timedOut, result>>

\* create_or_find_task_definition with the two branches exchanged
create_or_find_task_definition_swapped ==
    /\ pc = "exists_describe"
    /\ \E output \in DescribeTaskDefinitionOutputs :
       /\ exists_arg' = Append(exists_arg, output)
       /\ IF ~exists(output)
          THEN pc' = "latest_describe" /\ Send("describe_task_definition")
          ELSE pc' = "register" /\ Send("register_task_definition")
       /\ UNCHANGED <<config, others, now, cluster, elapsed, wake, family, task_name, task_arns, tasks,
                      reduced, finalCalls, timedOut, result>>

\* lines 203-214: the answer of the first describe_task_definition arrives;
\* exists() decides between latest_task_revision, which describes the family
\* again, and create_task_definition, which registers it
create_or_find_task_definition ==
    /\ pc = "exists_describe"
    /\ \E output \in DescribeTaskDefinitionOutputs :
       /\ exists_arg' = Append(exists_arg, output)
       /\ IF exists(output)
          THEN pc' = "latest_describe" /\ Send("describe_task_definition")
          ELSE pc' = "register" /\ Send("register_task_definition")
       /\ UNCHANGED <<config, others, now, cluster, elapsed, wake, family, task_name, task_arns, tasks,
                      reduced, finalCalls, timedOut, result>>

\* lines 247-257: the answer of the describe of latest_task_revision arrives
latest_task_revision ==
    /\ pc = "latest_describe"
    /\ \E output \in DescribeTaskDefinitionOutputs :
       /\ exists_arg' = Append(exists_arg, output)
       /\ IF IsErr(output)
          THEN Return(Err("TaskDefinitionDescribe")) /\ UNCHANGED <<calls, task_name>>
          ELSE IF IsErr(name_and_revision(output))
          THEN Return(name_and_revision(output)) /\ UNCHANGED <<calls, task_name>>
          ELSE SendRunTask(name_and_revision(output).ok) /\ UNCHANGED result
       /\ UNCHANGED <<config, others, now, cluster, family, task_arns, tasks, reduced, finalCalls, timedOut>>

\* lines 220-242: the answer of register_task_definition arrives
create_task_definition ==
    /\ pc = "register"
    /\ \E output \in RegisterTaskDefinitionOutputs :
       /\ family' = IF IsErr(output) THEN family ELSE family + 1
       /\ IF IsErr(output)
          THEN Return(Err("TaskDefinitionCreation")) /\ UNCHANGED <<calls, task_name>>
          ELSE IF IsErr(name_and_revision(output))
          THEN Return(name_and_revision(output)) /\ UNCHANGED <<calls, task_name>>
          ELSE SendRunTask(name_and_revision(output).ok) /\ UNCHANGED result
       /\ UNCHANGED <<config, others, now, cluster, exists_arg, task_arns, tasks, reduced, finalCalls,
                      timedOut>>

\* run_task, but a failed submission is submitted again
run_task_resubmits ==
    /\ pc = "run_task"
    /\ \E output \in RunTaskOutputs(config.task_count) :
       /\ IF IsErr(output)
          THEN IF calls["run_task"] < 2
               THEN /\ Send("run_task")
                    /\ UNCHANGED <<pc, elapsed, wake, result, task_arns>>
               ELSE Return(Err("TaskRunCreation")) /\ UNCHANGED <<calls, task_arns>>
          ELSE /\ task_arns' = filter_map_arns(output.ok)
               /\ pc' = "poll_describe"
               /\ Send("describe_tasks")
               /\ elapsed' = 0
               /\ wake' = 0
               /\ UNCHANGED result
       /\ UNCHANGED <<config, others, now, cluster, family, exists_arg, task_name, tasks, reduced,
                      finalCalls, timedOut>>

\* lines 84-100 and 129: the answer of run_task arrives; on success the ARNs
\* are collected, the completion timeout is created and the first
\* describe_tasks of wait_for_test_running is sent
run_task ==
    /\ pc = "run_task"
    /\ \E output \in RunTaskOutputs(config.task_count) :
       /\ IF IsErr(output)
          THEN Return(Err("TaskRunCreation")) /\ UNCHANGED <<calls, task_arns>>
          ELSE /\ task_arns' = filter_map_arns(output.ok)
               /\ pc' = "poll_describe"
               /\ Send("describe_tasks")
               /\ elapsed' = 0
               /\ wake' = 0
               /\ UNCHANGED result
       /\ UNCHANGED <<config, others, now, cluster, family, exists_arg, task_name, tasks, reduced,
                      finalCalls, timedOut>>

\* the loop returns whatever verdict it has computed
poll_returns_any(results) == results.outcome \in {"Pass", "Fail"}

\* the test of line 130 inverted
poll_returns_inverted(results) == results.outcome # "Pass"

\* line 130: the loop returns the results it has just computed
poll_returns(results) == results.outcome = "Pass"

\* wait_for_test_running, but a describe_tasks error is slept on and polled
\* again like a verdict that is not Pass
wait_for_test_running_retries ==
    /\ pc = "poll_describe"
    /\ \E output \in DescribeTasksOutputs(task_arns, RunTaskStates) :
       /\ tasks' = Some(output)
       /\ reduced' = reduced + 1
       /\ LET results == test_results(output, config.task_count)
          IN  IF IsOk(results) /\ poll_returns(results.ok)
              THEN Return(results)
              ELSE /\ pc' = "poll_sleep"
                   /\ wake' = elapsed + POLL_SLEEP_SECS
                   /\ UNCHANGED <<elapsed, result>>
       /\ UNCHANGED <<config, others, now, cluster, family, calls, exists_arg, task_name, task_arns,
                      finalCalls, timedOut>>

\* lines 129-133 and 104: the answer of a describe_tasks of the loop arrives
wait_for_test_running ==
    /\ pc = "poll_describe"
    /\ \E output \in DescribeTasksOutputs(task_arns, RunTaskStates) :
       /\ tasks' = Some(output)
       /\ reduced' = reduced + 1
       /\ LET results == test_results(output, config.task_count)
          IN  IF IsErr(results) \/ poll_returns(results.ok)
              THEN Return(results)
              ELSE /\ pc' = "poll_sleep"
                   /\ wake' = elapsed + POLL_SLEEP_SECS
                   /\ UNCHANGED <<elapsed, result>>
       /\ UNCHANGED <<config, others, now, cluster, family, calls, exists_arg, task_name, task_arns,
                      finalCalls, timedOut>>

\* line 133 and the next iteration: the sleep ends, describe_tasks is sent
poll_sleep_ends ==
    /\ pc = "poll_sleep"
    /\ elapsed >= wake
    /\ pc' = "poll_describe"
    /\ Send("describe_tasks")
    /\ UNCHANGED <<config, others, now, cluster, elapsed, wake, family, exists_arg, task_name,
                   task_arns, tasks, reduced, finalCalls, timedOut, result>>

\* the completion timeout is measured from the entry of run(), when the wall
\* clock is observed
completion_timeout_from_entry ==
    /\ pc \in {"poll_describe", "poll_sleep"}
    /\ IF now = None
       THEN elapsed >= COMPLETION_TIMEOUT_SECS
       ELSE now[1] >= COMPLETION_TIMEOUT_SECS
    /\ timedOut' = IF pc = "poll_describe" THEN "fetch" ELSE "sleep"
    /\ pc' = "final_describe"
    /\ Send("describe_tasks")
    /\ finalCalls' = finalCalls + 1
    /\ elapsed' = 0
    /\ wake' = 0
    /\ UNCHANGED <<config, others, now, cluster, family, exists_arg, task_name, task_arns, tasks,
                   reduced, result>>

\* the timeout lets a describe_tasks in flight complete and uses its answer
completion_timeout_keeps_fetch ==
    /\ pc \in {"poll_describe", "poll_sleep"}
    /\ elapsed >= COMPLETION_TIMEOUT_SECS
    /\ timedOut' = IF pc = "poll_describe" THEN "fetch" ELSE "sleep"
    /\ pc' = "final_describe"
    /\ IF pc = "poll_describe"
       THEN UNCHANGED <<calls, finalCalls>>
       ELSE Send("describe_tasks") /\ finalCalls' = finalCalls + 1
    /\ elapsed' = 0
    /\ wake' = 0
    /\ UNCHANGED <<config, others, now, cluster, family, exists_arg, task_name, task_arns, tasks,
                   reduced, result>>

\* lines 93-111: the completion timeout fires while the loop is suspended, in
\* its sleep or in a describe_tasks; the loop is dropped with whatever it was
\* awaiting, and the Err arm calls test_results, which sends describe_tasks
completion_timeout ==
    /\ pc \in {"poll_describe", "poll_sleep"}
    /\ elapsed >= COMPLETION_TIMEOUT_SECS
    /\ timedOut' = IF pc = "poll_describe" THEN "fetch" ELSE "sleep"
    /\ pc' = "final_describe"
    /\ Send("describe_tasks")
    /\ finalCalls' = finalCalls + 1
    /\ elapsed' = 0
    /\ wake' = 0
    /\ UNCHANGED <<config, others, now, cluster, family, exists_arg, task_name, task_arns, tasks,
                   reduced, result>>

\* the Err arm reports a timeout as a failed test
timeout_arm_fail(output) ==
    Ok([outcome |-> "Fail", num_passed |-> 0,
        num_failed |-> AsU64(config.task_count), num_skipped |-> 0,
        other_info |-> None])

\* the Err arm reports a timeout as an error
timeout_arm_error(output) == Err("CompletionTimeout")

\* lines 105-113: what the Err arm of the match returns
timeout_arm(output) == test_results(output, config.task_count)

\* lines 106-112: the answer of the describe_tasks of the Err arm arrives
final_test_results(outputs) ==
    /\ pc = "final_describe"
    /\ \E output \in outputs :
       /\ tasks' = Some(output)
       /\ reduced' = reduced + 1
       /\ Return(timeout_arm(output))
       /\ UNCHANGED <<config, others, now, cluster, family, calls, exists_arg, task_name, task_arns,
                      finalCalls, timedOut>>

\* the timeout of the stage run() is in, none outside the two waiting stages
Deadline ==
    IF pc \in {"describe_clusters", "ready_sleep"} THEN READY_TIMEOUT_SECS
    ELSE COMPLETION_TIMEOUT_SECS

\* time passes in a waiting stage; a timer that is due fires first
Tick ==
    /\ pc \in {"describe_clusters", "ready_sleep", "poll_describe", "poll_sleep"}
    /\ elapsed < Deadline
    /\ pc \in {"ready_sleep", "poll_sleep"} => elapsed < wake
    /\ elapsed' = elapsed + ClockStep
    /\ now' = IF now = None THEN None ELSE Some(now[1] + ClockStep)
    /\ UNCHANGED <<pc, config, others, cluster, wake, family, calls, exists_arg, task_name,
                   task_arns, tasks, reduced, finalCalls, timedOut, result>>

Next ==
    \/ aws_config
    \/ wait_for_registered_containers
    \/ ready_sleep_ends
    \/ ready_timeout
    \/ create_or_find_task_definition
    \/ latest_task_revision
    \/ create_task_definition
    \/ run_task
    \/ wait_for_test_running
    \/ poll_sleep_ends
    \/ completion_timeout
    \/ final_test_results(DescribeTasksOutputs(task_arns, RunTaskStates))
    \/ Tick

Spec == Init /\ [][Next]_vars

\* a run that can take a step eventually takes one: every request that is
\* awaited is answered, time passes, and a sleep or a timeout that is due
\* resumes the run
SpecLive == Init /\ [][Next]_vars /\ WF_vars(Next)


(***************************************************************************)
(* test_results on its own: the run is taken up where the completion       *)
(* timeout has interrupted the first describe_tasks of the loop and the    *)
(* describe_tasks of the Err arm is in flight, for every task_count up to  *)
(* MaxReplicas and every set of ARNs run_task can have returned; the       *)
(* answer lists tasks of which one is in an arbitrary state.               *)
(***************************************************************************)
\* the lists of TaskLists with the state of one task replaced by any state
ArbitraryTaskLists(arns) ==
    {<<>>} \cup
    UNION {{[l EXCEPT ![i] = Task(l[i].task_arn, s)] :
                i \in 1..Len(l), s \in AllTaskStates}
              : l \in TaskLists(arns, RunTaskStates)}

InitReducer ==
    /\ pc = "final_describe"
    /\ config \in [task_definition_name_and_revision : {Some("custom-task:7")},
                   task_count : 0..MaxReplicas]
    /\ elapsed = 0
    /\ wake = 0
    /\ family = 0
    /\ calls = [op \in Operations |->
                    CASE op = "describe_clusters" -> 1
                      [] op = "run_task" -> 1
                      [] op = "describe_tasks" -> 2
                      [] OTHER -> 0]
    /\ cluster = Some(Ok(<<[registered_container_instances_count |-> 1]>>))
    /\ exists_arg = <<>>
    /\ task_name = config.task_definition_name_and_revision
    /\ task_arns \in {filter_map_arns(output.ok) :
                        output \in {o \in RunTaskOutputs(config.task_count) : IsOk(o)}}
    /\ tasks = None
    /\ reduced = 0
    /\ finalCalls = 1
    /\ timedOut = "fetch"
    /\ result = Pending
    /\ others = <<>>
    /\ now = None

NextReducer ==
    final_test_results({Err("sdk")} \cup {Ok(l) : l \in ArbitraryTaskLists(task_arns)})

SpecReducer == InitReducer /\ [][NextReducer]_vars


(***************************************************************************)
(* Several runs of the agent against the same ECS account.  Each run is    *)
(* configured without a task definition and has found the cluster ready;   *)
(* the runs share nothing but the default family on the ECS side.  A run    *)
(* is followed up to the run_task request it sends with the name           *)
(* create_or_find_task_definition returned, or to the error it returned.   *)
(***************************************************************************)
\* the state of a run that the task definition stage reads and writes
RunState ==
    [pc |-> pc, exists_arg |-> exists_arg, task_name |-> task_name,
     result |-> result, calls |-> calls]

\* lines 48-71 and 203-209: a run that has come to
\* create_or_find_task_definition and has sent its first describe
RunAtProvisioner ==
    [pc |-> "exists_describe", exists_arg |-> <<>>, task_name |-> None,
     result |-> Pending,
     calls |-> [op \in Operations |->
                   IF op \in {"describe_clusters", "describe_task_definition"}
                   THEN 1 ELSE 0]]

InitProvisioner ==
    /\ pc = RunAtProvisioner.pc
    /\ config \in [task_definition_name_and_revision : {None}, task_count : {1}]
    /\ elapsed = 0
    /\ wake = 0
    /\ family \in 0..MaxRevision
    /\ calls = RunAtProvisioner.calls
    /\ cluster = Some(Ok(<<[registered_container_instances_count |-> 1]>>))
    /\ exists_arg = RunAtProvisioner.exists_arg
    /\ task_name = RunAtProvisioner.task_name
    /\ task_arns = <<>>
    /\ tasks = None
    /\ reduced = 0
    /\ finalCalls = 0
    /\ timedOut = "no"
    /\ result = RunAtProvisioner.result
    /\ others = <<>>
    /\ now = None

\* the task definition stage of the run has ended, and the next run of the
\* agent comes to create_or_find_task_definition
next_run ==
    /\ pc \in {"run_task", "done"}
    /\ Len(others) < MaxRuns - 1
    /\ others' = Append(others, RunState)
    /\ pc' = RunAtProvisioner.pc
    /\ exists_arg' = RunAtProvisioner.exists_arg
    /\ task_name' = RunAtProvisioner.task_name
    /\ result' = RunAtProvisioner.result
    /\ calls' = RunAtProvisioner.calls
    /\ UNCHANGED <<config, now, cluster, elapsed, wake, family, task_arns, tasks,
                   reduced, finalCalls, timedOut>>

NextProvisioner ==
    \/ create_or_find_task_definition
    \/ latest_task_revision
    \/ create_task_definition
    \/ next_run

SpecProvisioner == InitProvisioner /\ [][NextProvisioner]_vars

(***************************************************************************)
(* Two runs of the agent at the same time: both have come to               *)
(* create_or_find_task_definition, and their steps interleave at the       *)
(* await points.  The variables of the run hold the run that takes the     *)
(* next step; the other run waits in `others`.                             *)
(***************************************************************************)
InitRace ==
    /\ pc = RunAtProvisioner.pc
    /\ config \in [task_definition_name_and_revision : {None}, task_count : {1}]
    /\ elapsed = 0
    /\ wake = 0
    /\ family \in 0..MaxRevision
    /\ calls = RunAtProvisioner.calls
    /\ cluster = Some(Ok(<<[registered_container_instances_count |-> 1]>>))
    /\ exists_arg = RunAtProvisioner.exists_arg
    /\ task_name = RunAtProvisioner.task_name
    /\ task_arns = <<>>
    /\ tasks = None
    /\ reduced = 0
    /\ finalCalls = 0
    /\ timedOut = "no"
    /\ result = RunAtProvisioner.result
    /\ others = <<RunAtProvisioner>>
    /\ now = None

\* the run that takes the next step changes: the other run is resumed at the
\* await point it is suspended at
switch ==
    /\ others # <<>>
    /\ others' = Append(Tail(others), RunState)
    /\ pc' = Head(others).pc
    /\ exists_arg' = Head(others).exists_arg
    /\ task_name' = Head(others).task_name
    /\ result' = Head(others).result
    /\ calls' = Head(others).calls
    /\ UNCHANGED <<config, now, cluster, elapsed, wake, family, task_arns, tasks,
                   reduced, finalCalls, timedOut>>

NextRace ==
    \/ create_or_find_task_definition
    \/ latest_task_revision
    \/ create_task_definition
    \/ switch

SpecRace == InitRace /\ [][NextRace]_vars

(***************************************************************************)
(* One run with the wall clock observed: `now` counts the seconds since    *)
(* run() was entered, through all stages, next to the clock `elapsed` of   *)
(* the timeout of the current stage.  Outside the two waiting stages no    *)
(* timer runs; there a request takes up to MaxLatency seconds.             *)
(***************************************************************************)
InitClock ==
    /\ pc = "aws_config"
    /\ config \in [task_definition_name_and_revision : {None, Some("custom-task:7")},
                   task_count : {1}]
    /\ elapsed = 0
    /\ wake = 0
    /\ family = 0
    /\ calls = [op \in Operations |-> 0]
    /\ cluster = None
    /\ exists_arg = <<>>
    /\ task_name = None
    /\ task_arns = <<>>
    /\ tasks = None
    /\ reduced = 0
    /\ finalCalls = 0
    /\ timedOut = "no"
    /\ result = Pending
    /\ others = <<>>
    /\ now = Some(0)

\* lines 69-84: time passes while describe_task_definition,
\* register_task_definition or run_task is awaited
latency ==
    /\ pc \in {"exists_describe", "latest_describe", "register", "run_task"}
    /\ elapsed < MaxLatency
    /\ elapsed' = elapsed + ClockStep
    /\ now' = Some(now[1] + ClockStep)
    /\ UNCHANGED <<pc, config, others, cluster, wake, family, calls, exists_arg,
                   task_name, task_arns, tasks, reduced, finalCalls, timedOut, result>>

NextClock ==
    \/ Next
    \/ latency

SpecClock == InitClock /\ [][NextClock]_vars

(***************************************************************************)
(* Properties.                                                             *)
(***************************************************************************)
\* the describe_tasks requests sent and not dropped: consumed or in flight
Accounted ==
    reduced + (IF pc \in {"poll_describe", "final_describe"} THEN 1 ELSE 0)

\* the completion stage has been entered
CompletionReached == calls["describe_tasks"] >= 1

\* C1: when the completion timeout has fired, test_results is called exactly
\* once after it (one describe_tasks, sent by the Err arm), nothing else is
\* sent, and run() returns what that call computes from the answer it gets:
\* Pass when that answer reduces to Pass.
C1_DeadlineFinalPass ==
    timedOut # "no" =>
        /\ finalCalls = 1
        /\ pc \in {"final_describe", "done"}
        /\ calls["describe_tasks"] = Accounted + (IF timedOut = "fetch" THEN 1 ELSE 0)
        /\ pc = "done" =>
              /\ tasks # None
              /\ result = test_results(tasks[1], config.task_count)

\* C1 witness: the timeout fired and the final pass returned Pass
C1_Witness ==
    /\ pc = "done"
    /\ timedOut # "no"
    /\ IsOk(result)
    /\ result.ok.outcome = "Pass"
    /\ reduced >= 2

\* the answer consumed last was consumed by the loop and reduces to Pass
EarlyPass ==
    /\ timedOut = "no"
    /\ tasks # None
    /\ IsOk(test_results(tasks[1], config.task_count))
    /\ test_results(tasks[1], config.task_count).ok.outcome = "Pass"

\* C2: when a poll of the loop reduces to Pass before the timeout fires,
\* run() has returned that Pass verdict, no describe_tasks is in flight or
\* sent afterwards and the Err arm is never entered.
C2_EarlyPassReturns ==
    EarlyPass =>
        /\ pc = "done"
        /\ result = test_results(tasks[1], config.task_count)
        /\ finalCalls = 0
        /\ calls["describe_tasks"] = reduced

\* C2 witness: the third poll reduced to Pass
C2_Witness ==
    /\ EarlyPass
    /\ reduced = 3
    /\ config.task_count = 1

\* C3, as claimed: a describe_tasks in flight when the timeout fires is not
\* cancelled: it completes, and every request sent is consumed or in flight.
C3_FetchCompletes ==
    timedOut = "fetch" => calls["describe_tasks"] = Accounted

\* C3, amended: a describe_tasks in flight when the timeout fires is dropped
\* with the loop and its answer is never consumed; the Err arm sends one
\* describe_tasks of its own, and run() returns what test_results computes
\* from the answer to that one.
C3_FetchDropped ==
    timedOut = "fetch" =>
        /\ calls["describe_tasks"] = Accounted + 1
        /\ finalCalls = 1
        /\ pc = "done" => reduced = calls["describe_tasks"] - 1

\* C3 witness: the timeout interrupted a fetch and the run has returned
C3_Witness ==
    /\ timedOut = "fetch"
    /\ pc = "done"
    /\ calls["describe_tasks"] = 3

\* C4, as claimed: a run that has reached the completion stage ends with a
\* verdict whose outcome is Pass or Fail.
C4_AlwaysVerdict ==
    (pc = "done" /\ CompletionReached) =>
        IsOk(result) /\ result.ok.outcome \in {"Pass", "Fail"}

\* C4, amended: a run that has reached the completion stage ends with a
\* verdict whose outcome is Pass or Fail, also when the timeout fired, unless
\* the describe_tasks answer consumed last is an error: then, and only then,
\* it ends with the TaskDescribe error.
C4_VerdictOrDescribeError ==
    (pc = "done" /\ CompletionReached) =>
        /\ tasks # None
        /\ IF IsErr(tasks[1])
           THEN result = Err("TaskDescribe")
           ELSE IsOk(result) /\ result.ok.outcome \in {"Pass", "Fail"}

\* C4 witness: the timeout fired and the run ended with a Fail verdict
C4_Witness ==
    /\ pc = "done"
    /\ timedOut = "sleep"
    /\ IsOk(result)
    /\ result.ok.outcome = "Fail"


\* test_results has returned a verdict for the task list `tasks` holds
Reduced ==
    /\ pc = "done"
    /\ tasks # None
    /\ IsOk(tasks[1])
    /\ IsOk(result)

\* the success criterion of the specification, for one task
Successful(task) ==
    /\ task.last_status = Some("STOPPED")
    /\ task.stop_code = Some("EssentialContainerExited")
    /\ \A i \in DOMAIN task.containers : task.containers[i].exit_code = Some(0)

\* the tasks of the list that meet the criterion
SuccessfulTasks(task_list) ==
    {i \in DOMAIN task_list : Successful(task_list[i])}

\* C5: for every task_count >= 0 and every task list, the verdict has
\* num_passed + num_failed = task_count and num_skipped = 0.
C5_CountsAddUp ==
    Reduced =>
        /\ result.ok.num_passed + result.ok.num_failed = config.task_count
        /\ result.ok.num_passed >= 0
        /\ result.ok.num_failed >= 0
        /\ result.ok.num_skipped = 0

\* C5 witness: two replicas, one passed and one failed
C5_Witness ==
    /\ Reduced
    /\ config.task_count = 2
    /\ result.ok.num_passed = 1
    /\ result.ok.num_failed = 1

\* C6: the tasks counted as passed are exactly those that are STOPPED, have
\* the stop code EssentialContainerExited and have exit code 0 in every
\* container; a task that misses one of the three is not counted as passed
\* and so is counted as failed.
C6_SuccessCriterion ==
    Reduced =>
        /\ result.ok.num_passed = Cardinality(SuccessfulTasks(tasks[1].ok))
        /\ result.ok.num_failed =
              config.task_count - Cardinality(SuccessfulTasks(tasks[1].ok))

\* C6 witness: of two described tasks, one meets the criterion and the other
\* misses it only by a container without an exit code
C6_Witness ==
    /\ Reduced
    /\ Len(tasks[1].ok) = 2
    /\ result.ok.num_passed = 1
    /\ \E i \in 1..2 :
          /\ tasks[1].ok[i].last_status = Some("STOPPED")
          /\ tasks[1].ok[i].stop_code = Some("EssentialContainerExited")
          /\ tasks[1].ok[i].containers = <<[exit_code |-> Some(0)], [exit_code |-> None]>>

\* C7: the outcome is Pass exactly when num_passed = task_count, and every
\* requested ARN that has no task in the answer counts as failed: with one
\* missing the outcome is Fail.
C7_Outcome ==
    Reduced =>
        /\ result.ok.outcome \in {"Pass", "Fail"}
        /\ result.ok.outcome = "Pass" <=> result.ok.num_passed = config.task_count
        /\ result.ok.num_failed >= Len(task_arns) - Len(tasks[1].ok)
        /\ Len(tasks[1].ok) < Len(task_arns) => result.ok.outcome = "Fail"

\* C7 witness: two ARNs requested, one task described, and it has passed
C7_Witness ==
    /\ Reduced
    /\ Len(task_arns) = 2
    /\ Len(tasks[1].ok) = 1
    /\ result.ok.num_passed = 1
    /\ result.ok.outcome = "Fail"

\* the answer of the i-th describe_task_definition is an error other than
\* ServiceError(ClientException)
OtherError(i) ==
    /\ Len(exists_arg) >= i
    /\ IsErr(exists_arg[i])
    /\ exists_arg[i].err # "ClientException"

C9_ConfiguredTemplate ==
    config.task_definition_name_and_revision # None =>
        /\ calls["describe_task_definition"] = 0
        /\ calls["register_task_definition"] = 0
        /\ exists_arg = <<>>
        /\ calls["run_task"] >= 1 =>
              task_name = config.task_definition_name_and_revision
        /\ calls["run_task"] = 0 => task_name = None

\* C9 witness: the configured task definition has been submitted and the run
\* has ended with a verdict
C9_Witness ==
    /\ config.task_definition_name_and_revision = Some("custom-task:7")
    /\ task_name = Some("custom-task:7")
    /\ pc = "done"
    /\ IsOk(result)

\* every answer of describe_clusters consumed so far reported the cluster
\* with no registered container instance (any other answer ends the loop)
NoCapacitySoFar ==
    /\ cluster # None
    /\ IsOk(cluster[1])
    /\ cluster[1].ok # <<>>
    /\ Head(cluster[1].ok).registered_container_instances_count = 0

\* C10: while every poll has reported capacity 0 the run stays in the
\* readiness stage, within its 30 s, and sends no describe_task_definition,
\* register_task_definition, run_task or describe_tasks; it ends there only
\* by the timeout, with the InstanceTimeout error, which is neither the
\* NoTask error of the missing cluster nor a verdict.
C10_ReadinessTimeout ==
    NoCapacitySoFar =>
        /\ pc \in {"ready_sleep", "describe_clusters", "done"}
        /\ calls["describe_task_definition"] = 0
        /\ calls["register_task_definition"] = 0
        /\ calls["run_task"] = 0
        /\ calls["describe_tasks"] = 0
        /\ pc # "done" => elapsed < READY_TIMEOUT_SECS + ClockStep
        /\ pc = "done" =>
              /\ result = Err("InstanceTimeout")
              /\ result # Err("NoTask")
              /\ ~IsOk(result)

\* C10 witness: sixteen polls reported capacity 0 and the run has ended with
\* the InstanceTimeout error
C10_Witness ==
    /\ NoCapacitySoFar
    /\ pc = "done"
    /\ result = Err("InstanceTimeout")
    /\ calls["describe_clusters"] = 16

\* ---------------------------------------------------------------------------
\* C11: a describe_clusters answer whose `clusters` list is empty ends the run
\* at once with the NoTask error: the readiness loop does not poll again, and
\* no task definition is looked up or registered and no task is submitted.
ClusterMissing == cluster = Some(Ok(<<>>))

C11_ClusterNotFoundFatal ==
    ClusterMissing =>
        /\ pc = "done"
        /\ result = Err("NoTask")
        /\ calls["describe_task_definition"] = 0
        /\ calls["register_task_definition"] = 0
        /\ calls["run_task"] = 0
        /\ calls["describe_tasks"] = 0

\* the cluster disappears after polls that reported it without capacity
C11_Witness ==
    /\ ClusterMissing
    /\ pc = "done"
    /\ result = Err("NoTask")
    /\ calls["describe_clusters"] >= 2

\* ---------------------------------------------------------------------------
\* C12: run_task is called at most once in a run.  When it fails the run ends
\* with the TaskRunCreation error in the same step: nothing is sent again and
\* describe_tasks is never called.  The task ARNs are written only by the
\* step that receives the answer of run_task, so every later describe_tasks,
\* the polls and the one of the Err arm, is sent with the same ARNs.
C12_SubmitOnce ==
    [][ /\ calls'["run_task"] <= 1
        /\ (task_arns' # task_arns) =>
               pc = "run_task" /\ pc' = "poll_describe" /\ calls["describe_tasks"] = 0
        /\ (calls'["describe_tasks"] > calls["describe_tasks"]) =>
               /\ calls'["run_task"] = 1
               /\ pc # "run_task" => task_arns' = task_arns
        /\ (pc = "run_task" /\ pc' = "done") =>
               result' = Err("TaskRunCreation") /\ calls' = calls
        /\ (result' = Err("TaskRunCreation")) =>
               pc' = "done" /\ calls'["describe_tasks"] = 0 /\ task_arns' = <<>>
      ]_vars

\* a run that polled twice and then took the Err arm's describe_tasks, all
\* with the single ARN of its one submission
C12_Witness ==
    /\ pc = "done"
    /\ timedOut # "no"
    /\ calls["run_task"] = 1
    /\ task_arns = <<1>>
    /\ reduced >= 3
    /\ calls["describe_tasks"] >= 3

\* ---------------------------------------------------------------------------
\* C13: the stages run in a fixed order: describe_clusters polls, then
\* describe_task_definition / register_task_definition (only when no task
\* definition is configured), then run_task, then describe_tasks.  A call of a
\* later stage is sent only by the step in which the stage before it
\* succeeded, and once the run has ended, with an error or a verdict, no call
\* is sent at all.
ReadinessSucceeded ==
    /\ cluster # None
    /\ IsOk(cluster[1])
    /\ cluster[1].ok # <<>>
    /\ Head(cluster[1].ok).registered_container_instances_count # 0

FirstSend(op) == calls[op] = 0 /\ calls'[op] = 1

Provisioned ==
    IF config.task_definition_name_and_revision # None
    THEN calls["describe_task_definition"] = 0 /\ calls["register_task_definition"] = 0
    ELSE \/ calls["describe_task_definition"] = 2 /\ calls["register_task_definition"] = 0
         \/ calls["describe_task_definition"] = 1 /\ calls["register_task_definition"] = 1

StageOrder ==
    /\ calls["describe_task_definition"] + calls["register_task_definition"] > 0 =>
          /\ ReadinessSucceeded
          /\ config.task_definition_name_and_revision = None
          /\ calls["describe_task_definition"] >= 1
    /\ calls["run_task"] > 0 => ReadinessSucceeded /\ Provisioned /\ task_name # None
    /\ calls["describe_tasks"] > 0 => calls["run_task"] = 1 /\ calls["describe_clusters"] >= 1
    /\ (pc = "done" /\ result \in {Err("AwsConfig")}) =>
          \A op \in Operations : calls[op] = 0
    /\ (pc = "done" /\ result \in {Err("ClusterDescribe"), Err("NoTask"),
                                   Err("InstanceTimeout")}) =>
          \A op \in Operations \ {"describe_clusters"} : calls[op] = 0
    /\ (pc = "done" /\ result \in {Err("TaskDefinitionDescribe"),
                                   Err("TaskDefinitionCreation"),
                                   Err("TaskDefinitionMissing")}) =>
          calls["run_task"] = 0 /\ calls["describe_tasks"] = 0
    /\ (pc = "done" /\ result = Err("TaskRunCreation")) => calls["describe_tasks"] = 0

C13_StageOrder ==
    [][ /\ StageOrder'
        /\ pc = "done" => calls' = calls
        /\ FirstSend("describe_clusters") => pc = "aws_config"
        /\ FirstSend("describe_task_definition") =>
               pc = "describe_clusters" /\ ReadinessSucceeded'
        /\ FirstSend("register_task_definition") => pc = "exists_describe"
        /\ FirstSend("run_task") =>
               \/ pc = "describe_clusters" /\ ReadinessSucceeded'
               \/ pc \in {"latest_describe", "register"}
        /\ FirstSend("describe_tasks") => pc = "run_task"
      ]_vars

\* a run that went through all four stages, registering the default family
C13_Witness ==
    /\ pc = "done"
    /\ IsOk(result)
    /\ calls["describe_clusters"] >= 2
    /\ calls["describe_task_definition"] = 1
    /\ calls["register_task_definition"] = 1
    /\ calls["run_task"] = 1
    /\ calls["describe_tasks"] >= 2

\* ---------------------------------------------------------------------------
\* C19: the loop of wait_for_test_running returns no verdict but Pass.  An
\* answer that reduces to Fail, the one in which every task has stopped with
\* exit code 1 included, leaves the loop sleeping POLL_SLEEP_SECS before its
\* next describe_tasks; run() returns a Fail verdict only from the step that
\* receives the describe_tasks of the Err arm, which is sent only once the
\* completion timeout has fired, COMPLETION_TIMEOUT_SECS into the stage.
FailVerdict(r) == IsOk(r) /\ r.ok.outcome = "Fail"

LoopSawFail ==
    /\ timedOut = "no"
    /\ tasks # None
    /\ FailVerdict(test_results(tasks[1], config.task_count))

C19_NoEarlyFail ==
    [][ /\ (pc = "poll_describe" /\ pc' = "done" /\ IsOk(result')) =>
               result'.ok.outcome = "Pass"
        /\ (pc = "poll_describe" /\ reduced' = reduced + 1 /\ LoopSawFail') =>
               /\ pc' = "poll_sleep"
               /\ wake' = elapsed + POLL_SLEEP_SECS
               /\ result' = Pending
               /\ calls' = calls
        /\ (pc = "poll_sleep" /\ pc' = "poll_describe") =>
               elapsed >= wake /\ calls'["describe_tasks"] = calls["describe_tasks"] + 1
        /\ FailVerdict(result') =>
               /\ timedOut' # "no"
               /\ finalCalls' = 1
               /\ pc \in {"final_describe", "done"}
        /\ (timedOut = "no" /\ timedOut' # "no") =>
               elapsed >= COMPLETION_TIMEOUT_SECS
      ]_vars

\* every task has stopped with exit code 1 in the second answer or later, and
\* the loop sleeps towards another poll
C19_Witness ==
    /\ pc = "poll_sleep"
    /\ LoopSawFail
    /\ config.task_count = 1
    /\ Len(tasks[1].ok) = 1
    /\ tasks[1].ok[1].last_status = Some("STOPPED")
    /\ tasks[1].ok[1].containers = <<[exit_code |-> Some(1)]>>
    /\ reduced >= 2
    /\ elapsed < COMPLETION_TIMEOUT_SECS

\* ---------------------------------------------------------------------------
\* C20: when a describe_tasks of the loop answers with an error before the
\* completion timeout fires, the step that receives it ends the run with the
\* TaskDescribe error: no sleep, no further describe_tasks, and the Err arm's
\* describe_tasks is never sent.
LoopSawError == timedOut = "no" /\ tasks # None /\ IsErr(tasks[1])

C20_PollErrorPropagates ==
    LoopSawError =>
        /\ pc = "done"
        /\ result = Err("TaskDescribe")
        /\ finalCalls = 0
        /\ calls["describe_tasks"] = reduced

\* the error arrives at the third poll or later, before the deadline
C20_Witness ==
    /\ LoopSawError
    /\ pc = "done"
    /\ result = Err("TaskDescribe")
    /\ reduced >= 3
    /\ finalCalls = 0

\* ---------------------------------------------------------------------------
\* C14: over a sequence of runs configured without a task definition, a run
\* calls register_task_definition only after its describe answered
\* ClientException, which the service does only while the family has no
\* revision; a revision is created only then, so at most one is created.  A
\* register call that fails creates nothing, and the next run calls it again.
\* Once a run has registered the family, no later run calls register, and a
\* later run that gets a name submits the latest revision.
RECURSIVE SumRegister(_)
SumRegister(runs) ==
    IF runs = <<>> THEN 0
    ELSE Head(runs).calls["register_task_definition"] + SumRegister(Tail(runs))

RegisterCalls == calls["register_task_definition"] + SumRegister(others)

\* run r has registered a revision
Created(r) ==
    /\ r.calls["register_task_definition"] = 1
    /\ r.pc \in {"run_task", "done"}
    /\ r.result # Err("TaskDefinitionCreation")

Submits(r) == r.pc = "run_task"

\* the original statement: at most one call in total
C14_RegisterCalledOnce == RegisterCalls <= 1

C14_CreatedOnce ==
    [][ /\ (calls'["register_task_definition"] > calls["register_task_definition"]) =>
              /\ pc = "exists_describe"
              /\ family = 0
              /\ exists_arg' = <<Err("ClientException")>>
              /\ \A i \in 1..Len(others) : ~Created(others[i])
        /\ (family' # family) =>
              family = 0 /\ family' = 1 /\ pc = "register" /\ Created(RunState')
        /\ \A i \in 1..Len(others') :
              Created(others'[i]) =>
                 /\ calls'["register_task_definition"] = 0
                 /\ \A j \in (i + 1)..Len(others') :
                        others'[j].calls["register_task_definition"] = 0
        /\ Submits(RunState') =>
              task_name' = Some(FormatNameRevision(DEFAULT_TASK_DEFINITION, family'))
      ]_vars

\* the first run's register failed, the second run registered the family and
\* the third run submits the revision it was told by describe
C14_Witness ==
    /\ Len(others) = 2
    /\ others[1].result = Err("TaskDefinitionCreation")
    /\ Created(others[2])
    /\ Submits(others[2])
    /\ Submits(RunState)
    /\ calls["register_task_definition"] = 0
    /\ calls["describe_task_definition"] = 2
    /\ task_name = others[2].task_name
    /\ RegisterCalls = 2

\* ---------------------------------------------------------------------------
\* C15: when two runs configured without a task definition use the missing
\* default family at the same time, each run whose describe answered
\* ClientException has sent register_task_definition, whatever the other run
\* has done; when both have registered, the family has two revisions and the
\* two runs submit different ones.
NotFound(r) == r.exists_arg # <<>> /\ r.exists_arg[1] = Err("ClientException")

BothCreated == Created(RunState) /\ Created(others[1])

C15_RaceCreatesTwo ==
    /\ \A r \in {RunState, others[1]} :
          NotFound(r) => r.calls["register_task_definition"] = 1
    /\ BothCreated => family = 2
    /\ (BothCreated /\ Submits(RunState) /\ Submits(others[1])) =>
          /\ task_name # others[1].task_name
          /\ {task_name, others[1].task_name} =
                {Some(FormatNameRevision(DEFAULT_TASK_DEFINITION, 1)),
                 Some(FormatNameRevision(DEFAULT_TASK_DEFINITION, 2))}

\* both runs saw the family missing, both registered it, and they submit the
\* revisions 1 and 2
C15_Witness ==
    /\ NotFound(RunState)
    /\ NotFound(others[1])
    /\ BothCreated
    /\ family = 2
    /\ Submits(RunState)
    /\ Submits(others[1])
    /\ task_name = Some(FormatNameRevision(DEFAULT_TASK_DEFINITION, 2))
    /\ others[1].task_name = Some(FormatNameRevision(DEFAULT_TASK_DEFINITION, 1))

\* ---------------------------------------------------------------------------
\* C16: the readiness loop sleeps READY_SLEEP_SECS between the answer of one
\* describe_clusters and the next request, so the k-th request is sent no
\* earlier than READY_SLEEP_SECS * (k - 1) seconds into the stage.  The run
\* leaves the stage for the next one in the very step that receives the first
\* answer with a nonzero registered_container_instances_count, every answer
\* before it having reported zero, within the READY_TIMEOUT_SECS of the
\* stage; with answers that take no time, zero for 16 s and nonzero from then
\* on is a success at second 18.
ReadinessStage == {"describe_clusters", "ready_sleep"}
NextStage == {"exists_describe", "run_task"}

C16_ReadinessSuccess ==
    [][ /\ (pc = "describe_clusters" /\ pc' \notin ReadinessStage
              /\ result' # Err("InstanceTimeout") /\ ReadinessSucceeded') =>
               /\ pc' \in NextStage
               /\ result' = Pending
               /\ now' = now
               /\ now[1] = elapsed
               /\ elapsed < READY_TIMEOUT_SECS + ClockStep
        /\ (pc \in ReadinessStage /\ pc' \in NextStage) =>
               /\ pc = "describe_clusters"
               /\ ReadinessSucceeded'
               /\ calls["describe_clusters"] > 1 => NoCapacitySoFar
        /\ (pc = "describe_clusters" /\ pc' = "ready_sleep") =>
               NoCapacitySoFar' /\ wake' = elapsed + READY_SLEEP_SECS
        /\ (pc = "ready_sleep" /\ pc' = "describe_clusters") =>
               /\ elapsed >= wake
               /\ elapsed < wake + ClockStep
               /\ calls'["describe_clusters"] = calls["describe_clusters"] + 1
        /\ (pc' \in ReadinessStage) =>
               elapsed' >= READY_SLEEP_SECS * (calls'["describe_clusters"] - 1)
      ]_vars

\* nine answers with count 0 at the seconds 0 to 16, the tenth with count 1
\* at second 18: run_task is sent at second 18
C16_Witness ==
    /\ pc = "run_task"
    /\ ReadinessSucceeded
    /\ calls["describe_clusters"] = 10
    /\ calls["run_task"] = 1
    /\ elapsed = 0
    /\ now = Some(18)

\* ---------------------------------------------------------------------------
\* C17: each timeout is measured on the clock of its own stage.  The clock
\* of the completion stage starts at 0 in the step that receives the answer
\* of run_task, whatever the wall clock shows then; in a stage the stage
\* clock and the wall clock advance together; the completion timeout fires
\* only when COMPLETION_TIMEOUT_SECS have passed on the stage clock and the
\* readiness timeout only when READY_TIMEOUT_SECS have.
CompletionStage == {"poll_describe", "poll_sleep"}

C17_IndependentDeadlines ==
    [][ /\ (pc = "aws_config" /\ pc' = "describe_clusters") => elapsed' = 0
        /\ (pc = "run_task" /\ pc' = "poll_describe") => elapsed' = 0 /\ now' = now
        /\ (pc \in ReadinessStage /\ pc' \in ReadinessStage) =>
               now'[1] - now[1] = elapsed' - elapsed
        /\ (pc \in CompletionStage /\ pc' \in CompletionStage) =>
               now'[1] - now[1] = elapsed' - elapsed
        /\ (pc \in CompletionStage /\ timedOut' # "no") =>
               /\ elapsed >= COMPLETION_TIMEOUT_SECS
               /\ now[1] >= elapsed
               /\ pc' = "final_describe"
        /\ (pc \in ReadinessStage /\ result' = Err("InstanceTimeout")) =>
               elapsed >= READY_TIMEOUT_SECS
      ]_vars

\* fifteen describe_clusters, the last one sent and answered at second 28,
\* then the completion timeout fires at second 58: 30 s of polling
C17_Witness ==
    /\ timedOut # "no"
    /\ ReadinessSucceeded
    /\ calls["describe_clusters"] = 15
    /\ now = Some(58)
    /\ reduced >= 2

\* ---------------------------------------------------------------------------
\* C18: when every request is eventually answered, run() eventually returns
\* a verdict or an error.  No describe_clusters is sent once more than
\* READY_TIMEOUT_SECS have passed in the readiness stage, and none after the
\* readiness timeout has fired; no describe_tasks of the loop is sent once
\* more than COMPLETION_TIMEOUT_SECS have passed in the completion stage, and
\* after the completion timeout has fired only the one of the Err arm is
\* sent.  With the sleeps between the requests that bounds the requests of
\* each stage.
MaxReadyPolls == READY_TIMEOUT_SECS \div READY_SLEEP_SECS + 1
MaxCompletionPolls == COMPLETION_TIMEOUT_SECS \div POLL_SLEEP_SECS + 1

PollsBounded ==
    /\ calls["describe_clusters"] <= MaxReadyPolls
    /\ calls["describe_tasks"] <= MaxCompletionPolls + 1
    /\ calls["describe_tasks"] - finalCalls <= MaxCompletionPolls
    /\ finalCalls <= 1

Sent(op) == calls'[op] > calls[op]

NoPollAfterDeadline ==
    /\ Sent("describe_clusters") =>
          /\ elapsed <= READY_TIMEOUT_SECS
          /\ result = Pending
          /\ calls'["describe_clusters"] = calls["describe_clusters"] + 1
    /\ (Sent("describe_tasks") /\ pc \in {"run_task", "poll_sleep"}) =>
          /\ elapsed <= COMPLETION_TIMEOUT_SECS
          /\ timedOut = "no"
    /\ (Sent("describe_tasks") /\ pc \notin {"run_task", "poll_sleep"}) =>
          /\ timedOut = "no" /\ timedOut' # "no"
          /\ finalCalls = 0 /\ finalCalls' = 1
          /\ pc' = "final_describe"
    /\ (timedOut # "no" \/ pc = "done") => calls' = calls

C18_Termination ==
    /\ <>(pc = "done" /\ result # Pending)
    /\ []PollsBounded
    /\ [][NoPollAfterDeadline]_vars

\* a run that ends after the most requests the two stages allow
C18_Witness ==
    /\ pc = "done"
    /\ result # Pending
    /\ calls["describe_clusters"] = MaxReadyPolls
    /\ calls["describe_tasks"] = MaxCompletionPolls + 1
    /\ finalCalls = 1

====
